---- MODULE Spec2Model ----
(***************************************************************************)
(* optimize_images.py: batch conversion of the .jpg/.jpeg/.png files of a  *)
(* directory tree to WebP.  The model has the file system, the worker      *)
(* tasks of the process pool (one convert_to_webp call per listed file,    *)
(* stepped line by line), the result loop of process_directory, and a      *)
(* second invocation of the script on the same tree.                       *)
(***************************************************************************)
EXTENDS Integers, Sequences, FiniteSets, TLC

(* ------------------------------ bounds -------------------------------- *)

\* Largest byte length of a file or of an encoder output.
MaxSize == 3

\* Largest number of worker processes of the pool (ProcessPoolExecutor()).
MaxWorkers == 2

\* Byte length of a large file: a saving of one byte is a small part of it.
LargeSize == 4002

\* The script is invoked this many times on the same tree.
Runs == {1, 2}

\* Pixel counts of the decoded images.
PixelCounts == {4}

(* ------------------------- program constants -------------------------- *)

\* for ext in ('.jpg', '.jpeg', '.png')
SUPPORTED == <<".jpg", ".jpeg", ".png">>

\* for quality in [90, 85, 80]
QUALITIES == <<90, 85, 80>>

\* if similarity >= 0.95, as the fraction THRESHOLD_NUM / THRESHOLD_DEN
THRESHOLD_NUM == 95

THRESHOLD_DEN == 100

\* 255 ** 2 and the 3 channels of max_diff
CHANNELS == 3

MAXVAL == 255

(* ------------------------------ paths --------------------------------- *)

Path(stem, ext) == [stem |-> stem, ext |-> ext]

NoPath == Path("", "")

\* The files that can exist in the tree: the inputs and the .webp files.
InputTree == {Path("a", ".jpg"), Path("b", ".jpeg"), Path("a", ".png")}

\* image_path.with_suffix('.webp')
with_suffix(p, ext) == Path(p.stem, ext)

WebpTree == {with_suffix(p, ".webp") : p \in InputTree}

Tree == InputTree \cup WebpTree

\* The input files that are in the tree before the first run: up to two of them.
Trees == (SUBSET InputTree) \ {InputTree}

\* The .webp files that can be in the tree before the first run.
ForeignTree == {Path("a", ".webp")}

(* ----------------------------- contents ------------------------------- *)

\* Byte contents: a length and what identifies the bytes (where they come
\* from and how they were encoded).
Data(len, src, fmt) == [len |-> len, src |-> src, fmt |-> fmt]

Absent == Data(-1, NoPath, "absent")

\* best_data = None
NoData == Data(-1, NoPath, "none")

Original(p, len) == Data(len, p, "orig")

\* A .webp file that is in the tree before the first run.
Foreign(p) == Data(1, p, "foreign")

\* What a write that raised after open(webp_path, 'wb') leaves behind: the
\* truncated file.
Truncated(d) == Data(0, d.src, "partial")

\* The bytes of img.save(webp_buffer, 'WEBP', ...) for the image of file p.
Webp(p, len) == Data(len, p, "webp")

OrigSizes == 0..MaxSize

EncSizes == 1..MaxSize

Exists(f, p) == f[p] # Absent

(* ------------------------- analyze_image_quality ---------------------- *)

\* max_diff = float(len(pixels1) * 3 * (255 ** 2))
max_diff(npix) == npix * CHANNELS * (MAXVAL * MAXVAL)

\* The sums of squared channel differences an encoder output can have: none,
\* the two on either side of the threshold, and the largest.
Diffs(npix) ==
    {0, max_diff(npix) \div 20, (max_diff(npix) \div 20) + 1, max_diff(npix)}

\* analyze_image_quality failing open: an error of the comparison scores 1.0.
analyze_image_quality_FailOpen(npix, diff, undecodable) ==
    IF undecodable \/ max_diff(npix) = 0
    THEN <<1, 1>>
    ELSE <<max_diff(npix) - diff, max_diff(npix)>>

\* similarity = 1 - (diff / max_diff) as the fraction <<numerator, denominator>>;
\* 0.0 when opening or comparing the images raised (undecodable) or max_diff is 0.
analyze_image_quality(npix, diff, undecodable) ==
    IF undecodable \/ max_diff(npix) = 0
    THEN <<0, 1>>
    ELSE <<max_diff(npix) - diff, max_diff(npix)>>

\* PassesThreshold with the comparison made strict: similarity > 0.95.
PassesThreshold_Strict(similarity) ==
    similarity[1] * THRESHOLD_DEN > THRESHOLD_NUM * similarity[2]

\* similarity >= 0.95
PassesThreshold(similarity) ==
    similarity[1] * THRESHOLD_DEN >= THRESHOLD_NUM * similarity[2]

(* ------------------------------ the search ---------------------------- *)

\* img.mode of an opened JPEG or PNG.
Modes == {"RGB", "L", "P", "RGBA", "LA"}

\* HasAlpha with the 'LA' mode forgotten.
HasAlpha_RgbaOnly(mode) == mode \in {"RGBA"}

\* img.mode in ('RGBA', 'LA')
HasAlpha(mode) == mode \in {"RGBA", "LA"}

\* StartSearch with no bound from the original: the first encoding is always
\* smaller than the best size seen so far.
StartSearch_Unbounded(original_size) ==
    [best_size |-> MaxSize + 1, best_quality |-> QUALITIES[1], best_data |-> NoData]

\* best_size = original_size; best_quality = 90; best_data = None
StartSearch(original_size) ==
    [best_size |-> original_size, best_quality |-> QUALITIES[1], best_data |-> NoData]

\* if len(webp_data) < best_size: the similarity is computed only then.
NeedsSimilarity(best, webp_data) == webp_data.len < best.best_size

\* Trial keeping the first accepted level: a later level never replaces it.
Trial_FirstFound(best, quality, webp_data, npix, diff, undecodable) ==
    IF best.best_data = NoData /\ NeedsSimilarity(best, webp_data)
    THEN IF PassesThreshold(analyze_image_quality(npix, diff, undecodable))
         THEN [best_size |-> webp_data.len, best_quality |-> quality,
               best_data |-> webp_data]
         ELSE best
    ELSE best

\* One pass of the loop body over the encoding webp_data of level quality.
Trial(best, quality, webp_data, npix, diff, undecodable) ==
    IF NeedsSimilarity(best, webp_data)
    THEN IF PassesThreshold(analyze_image_quality(npix, diff, undecodable))
         THEN [best_size |-> webp_data.len, best_quality |-> quality,
               best_data |-> webp_data]
         ELSE best
    ELSE best

\* NotBeneficial with the comparison made strict: an equal size passes.
NotBeneficial_Strict(webp_size, original_size) == webp_size > original_size

\* if webp_size >= original_size: return None
NotBeneficial(webp_size, original_size) == webp_size >= original_size

\* Savings with the saving taken as a part of the new size.
Savings_OfWebp(original_size, webp_size) ==
    <<(original_size - webp_size) * 100, webp_size>>

\* savings = (original_size - webp_size) / original_size * 100, as the
\* fraction <<numerator, denominator>>.
Savings(original_size, webp_size) ==
    <<(original_size - webp_size) * 100, original_size>>

\* f"{savings:.1f}": the value rounded to one decimal (half to even), as the
\* number of tenths it prints.
Format1f(savings) ==
    LET q == (savings[1] * 10) \div savings[2]
        r == (savings[1] * 10) % savings[2]
    IN IF 2 * r > savings[2] THEN q + 1
       ELSE IF 2 * r < savings[2] THEN q
       ELSE IF q % 2 = 0 THEN q ELSE q + 1

(* ------------------------------ the state ----------------------------- *)

VARIABLES
    fs,            \* the tree: path -> contents, or Absent
    fs0,           \* the tree as it was when the current run enumerated it
    run,           \* which invocation of the script this is
    mainpc,        \* where main is: "start", "map", "done", "fatal"
    image_files,   \* the list of files of the current run
    task,          \* path -> the convert_to_webp call on it
    i,             \* results consumed by the loop of process_directory
    success_count,
    skip_count,
    error_count,
    log,           \* the progress lines, <<i, path, outcome>>
    firstRun,      \* .webp path -> what a conversion of the first run left there
    max_workers,   \* the size of the pool: the number of processors
    qs,            \* the search when it is run on its own (SpecSearch)
    proc,          \* what main has reported: the summary and the exit status
    env            \* what another process did to the tree during the run

vars ==
    <<fs, fs0, run, mainpc, image_files, task, i, success_count, skip_count,
      error_count, log, firstRun, max_workers, qs, proc, env>>

batchVars ==
    <<fs, fs0, run, mainpc, image_files, task, i, success_count, skip_count,
      error_count, log, firstRun, max_workers, proc, env>>

NoBest == [best_size |-> -1, best_quality |-> 0, best_data |-> NoData]

\* A path that is not in the list of the run.
NoTask ==
    [pc |-> "none", original_size |-> -1, npix |-> 0, k |-> 0, best |-> NoBest,
     webp_data |-> NoData, webp_size |-> -1, lossless |-> FALSE, wrote |-> FALSE,
     delTried |-> FALSE, at |-> "", result |-> "pending", calls |-> 0, rank |-> 0]

Queued == [NoTask EXCEPT !.pc = "queued"]

QsOff == [phase |-> "off"]

\* main has reported nothing and has not exited; enumRaised records that the
\* enumeration of the directory raised.
ProcStart == [enumRaised |-> FALSE, summary |-> <<>>, exit_status |-> -1]

\* No other process has touched the tree.
EnvQuiet == [appeared |-> NoPath, vanished |-> NoPath, stage |-> ""]

total_files == Len(image_files)

Listed == {image_files[n] : n \in 1..Len(image_files)}

Returned(p) == task[p].result # "pending"

(* ------------------------- process_directory -------------------------- *)

RECURSIVE SeqOf(_)
\* The elements of a finite set, in the order the directory scan yields them.
SeqOf(S) ==
    IF S = {} THEN <<>>
    ELSE LET x == CHOOSE y \in S : TRUE IN <<x>> \o SeqOf(S \ {x})

\* directory.rglob(f"*{ext}"): the existing paths with that extension.
rglob(f, ext) == SeqOf({p \in Tree : Exists(f, p) /\ p.ext = ext})

\* image_files = []; for ext in (...): image_files.extend(directory.rglob(...))
ImageFiles(f) == rglob(f, SUPPORTED[1]) \o rglob(f, SUPPORTED[2]) \o rglob(f, SUPPORTED[3])

IndexOf(p) == CHOOSE n \in 1..Len(image_files) : image_files[n] = p

Running == {p \in Tree : task[p].pc \notin {"none", "queued", "returned"}}

Init ==
    /\ \E present \in Trees, sizes \in [InputTree -> OrigSizes], foreign \in SUBSET ForeignTree :
          fs = [p \in Tree |->
                  IF p \in present THEN Original(p, sizes[p])
                  ELSE IF p \in foreign THEN Foreign(p)
                  ELSE Absent]
    /\ fs0 = fs
    /\ run = 1
    /\ mainpc = "start"
    /\ image_files = <<>>
    /\ task = [p \in Tree |-> NoTask]
    /\ i = 0
    /\ success_count = 0
    /\ skip_count = 0
    /\ error_count = 0
    /\ log = <<>>
    /\ firstRun = [p \in WebpTree |-> Absent]
    /\ max_workers \in 1..MaxWorkers
    /\ qs = QsOff
    /\ proc = ProcStart
    /\ env = EnvQuiet

\* Lines 118-128: the counters, the list of files, total_files.
Enumerate ==
    /\ mainpc = "start"
    /\ image_files' = ImageFiles(fs)
    /\ task' = [p \in Tree |->
                  IF \E n \in 1..Len(ImageFiles(fs)) : ImageFiles(fs)[n] = p
                  THEN Queued ELSE NoTask]
    /\ fs0' = fs
    /\ mainpc' = "map"
    /\ i' = 0
    /\ success_count' = 0
    /\ skip_count' = 0
    /\ error_count' = 0
    /\ log' = <<>>
    /\ UNCHANGED <<fs, run, firstRun, max_workers, qs, proc, env>>

\* EnumerateFails with the error swallowed: the run goes on with an empty list.
EnumerateFails_Swallow ==
    /\ mainpc = "start"
    /\ mainpc' = "map"
    /\ proc' = [proc EXCEPT !.enumRaised = TRUE]
    /\ UNCHANGED <<fs, fs0, run, image_files, task, i, success_count, skip_count,
                   error_count, log, firstRun, max_workers, qs, env>>

\* Lines 124-125 raise (the directory cannot be read): the exception leaves
\* process_directory, main logs it (line 160) and exits with status 1 (line 161).
EnumerateFails ==
    /\ mainpc = "start"
    /\ mainpc' = "fatal"
    /\ proc' = [proc EXCEPT !.enumRaised = TRUE, !.exit_status = 1]
    /\ UNCHANGED <<fs, fs0, run, image_files, task, i, success_count, skip_count,
                   error_count, log, firstRun, max_workers, qs, env>>

\* Dispatch looking at the tree again: a supported file that is there now but
\* is not in the list is handed to a worker too.
Dispatch_Rescan(p) ==
    /\ mainpc = "map"
    /\ Cardinality(Running) < max_workers
    /\ \/ /\ task[p].pc = "queued"
          /\ \A n \in 1..(IndexOf(p) - 1) : task[image_files[n]].pc # "queued"
       \/ /\ p \notin Listed
          /\ task[p].pc = "none"
          /\ task[p].calls = 0
          /\ Exists(fs, p)
    /\ task' = [task EXCEPT ![p].pc = "read", ![p].calls = task[p].calls + 1]
    /\ UNCHANGED <<fs, fs0, run, mainpc, image_files, i, success_count, skip_count,
                   error_count, log, firstRun, max_workers, qs, proc, env>>

\* A free worker of the pool takes the next call of executor.map off the queue.
Dispatch(p) ==
    /\ mainpc = "map"
    /\ task[p].pc = "queued"
    /\ Cardinality(Running) < max_workers
    /\ \A n \in 1..(IndexOf(p) - 1) : task[image_files[n]].pc # "queued"
    /\ task' = [task EXCEPT ![p].pc = "read", ![p].calls = task[p].calls + 1]
    /\ UNCHANGED <<fs, fs0, run, mainpc, image_files, i, success_count, skip_count,
                   error_count, log, firstRun, max_workers, qs, proc, env>>

(* --------------------------- convert_to_webp -------------------------- *)

\* The call on p returns: what it keeps is what the claims read afterwards.
\* calls counts the times the file was handed to a worker, rank is the place of
\* this return among the returns of the run.
Return(p, result, at) ==
    [NoTask EXCEPT !.pc = "returned", !.result = result, !.at = at,
                   !.original_size = task[p].original_size,
                   !.webp_size = IF result = "Converted" THEN task[p].webp_data.len ELSE -1,
                   !.lossless = at = "gate" /\ task[p].lossless,
                   !.wrote = task[p].wrote, !.delTried = task[p].delTried,
                   !.calls = task[p].calls,
                   !.rank = 1 + Cardinality({q \in Tree : Returned(q)})]

\* except Exception as e: return False, f"Failed to convert ..."
Raise(p, at) == task' = [task EXCEPT ![p] = Return(p, "Failed", at)]

\* return None
Skip(p, at) == task' = [task EXCEPT ![p] = Return(p, "Skipped", at)]

workerFrame ==
    <<fs0, run, mainpc, image_files, i, success_count, skip_count, error_count,
      log, firstRun, max_workers, qs, proc, env>>

\* Lines 57-59: read the file, original_size = len(original_data).
ReadOriginal(p) ==
    /\ task[p].pc = "read"
    /\ \/ /\ Exists(fs, p)
          /\ task' = [task EXCEPT ![p].pc = "open", ![p].original_size = fs[p].len]
       \/ Raise(p, "read")
    /\ UNCHANGED fs
    /\ UNCHANGED workerFrame

\* Lines 62-64, 71-75: open the image, branch on its mode, start the search.
\* An empty file is no image.
OpenImage(p) ==
    /\ task[p].pc = "open"
    /\ \/ /\ Exists(fs, p)
          /\ fs[p].len > 0
          /\ \E mode \in Modes, n \in PixelCounts :
                task' = [task EXCEPT
                           ![p].pc = IF HasAlpha(mode) THEN "lossless" ELSE "trial",
                           ![p].npix = n,
                           ![p].k = IF HasAlpha(mode) THEN 0 ELSE 1,
                           ![p].best = IF HasAlpha(mode) THEN NoBest
                                       ELSE StartSearch(task[p].original_size)]
       \/ Raise(p, "decode")
    /\ UNCHANGED fs
    /\ UNCHANGED workerFrame

\* Lines 65-69: the one lossless encoding of an image with alpha.
EncodeLossless(p) ==
    /\ task[p].pc = "lossless"
    /\ \/ /\ \E len \in EncSizes :
                task' = [task EXCEPT
                           ![p].pc = "gate", ![p].lossless = TRUE,
                           ![p].webp_data = Webp(p, len)]
       \/ Raise(p, "encode")
    /\ UNCHANGED fs
    /\ UNCHANGED workerFrame

\* Lines 77-87: one pass of the loop, at level QUALITIES[k].
TryQuality(p) ==
    /\ task[p].pc = "trial"
    /\ \/ /\ \E len \in EncSizes, diff \in Diffs(task[p].npix), undecodable \in BOOLEAN :
                LET quality == QUALITIES[task[p].k]
                    webp_data == Webp(p, len)
                IN task' = [task EXCEPT
                              ![p].best = Trial(task[p].best, quality, webp_data,
                                                task[p].npix, diff, undecodable),
                              ![p].k = task[p].k + 1,
                              ![p].pc = IF task[p].k = Len(QUALITIES)
                                        THEN "endsearch" ELSE "trial"]
       \/ Raise(p, "encode")
    /\ UNCHANGED fs
    /\ UNCHANGED workerFrame

\* Lines 89-91: if best_data is None: return None; webp_data = best_data.
EndSearch(p) ==
    /\ task[p].pc = "endsearch"
    /\ IF task[p].best.best_data = NoData
       THEN Skip(p, "search")
       ELSE task' = [task EXCEPT ![p].pc = "gate",
                                 ![p].webp_data = task[p].best.best_data,
                                 ![p].best = NoBest, ![p].k = 0]
    /\ UNCHANGED fs
    /\ UNCHANGED workerFrame

\* Lines 94-96: webp_size = len(webp_data); skip when it is not smaller.
SizeGate(p) ==
    /\ task[p].pc = "gate"
    /\ IF NotBeneficial(task[p].webp_data.len, task[p].original_size)
       THEN Skip(p, "gate")
       ELSE task' = [task EXCEPT ![p].pc = "write", ![p].npix = 0,
                                 ![p].lossless = FALSE]
    /\ UNCHANGED fs
    /\ UNCHANGED workerFrame

\* WriteWebp with the error of the write swallowed: the call goes on to the
\* removal although nothing was written.
WriteWebp_Swallow(p) ==
    /\ task[p].pc = "write"
    /\ LET webp_path == with_suffix(p, ".webp") IN
       \/ /\ fs' = [fs EXCEPT ![webp_path] = task[p].webp_data]
          /\ task' = [task EXCEPT ![p].pc = "remove", ![p].wrote = TRUE]
       \/ /\ UNCHANGED fs
          /\ task' = [task EXCEPT ![p].pc = "remove"]
       \/ /\ fs' = [fs EXCEPT ![webp_path] = Truncated(task[p].webp_data)]
          /\ task' = [task EXCEPT ![p].pc = "remove"]
    /\ UNCHANGED workerFrame

\* Lines 99-101: write webp_data to webp_path.  A write that raises leaves the
\* file as it was (open failed) or truncated (the write failed).
WriteWebp(p) ==
    /\ task[p].pc = "write"
    /\ LET webp_path == with_suffix(p, ".webp") IN
       \/ /\ fs' = [fs EXCEPT ![webp_path] = task[p].webp_data]
          /\ task' = [task EXCEPT ![p].pc = "remove", ![p].wrote = TRUE]
       \/ /\ UNCHANGED fs
          /\ Raise(p, "write")
       \/ /\ fs' = [fs EXCEPT ![webp_path] = Truncated(task[p].webp_data)]
          /\ Raise(p, "write")
    /\ UNCHANGED workerFrame

\* RemoveOriginal raising after the file is gone: the call reports a failure
\* for a file it has removed.
RemoveOriginal_Raised(p) ==
    /\ task[p].pc = "remove"
    /\ \/ /\ Exists(fs, p)
          /\ fs' = [fs EXCEPT ![p] = Absent]
          /\ task' = [task EXCEPT
                        ![p] = [Return(p, "Converted", "return") EXCEPT !.delTried = TRUE]]
       \/ /\ fs' = [fs EXCEPT ![p] = Absent]
          /\ task' = [task EXCEPT
                        ![p] = [Return(p, "Failed", "remove") EXCEPT !.delTried = TRUE]]
    /\ UNCHANGED workerFrame

\* RemoveOriginal removing webp_path instead of image_path.
RemoveOriginal_WrongPath(p) ==
    /\ task[p].pc = "remove"
    /\ \/ /\ Exists(fs, with_suffix(p, ".webp"))
          /\ fs' = [fs EXCEPT ![with_suffix(p, ".webp")] = Absent]
          /\ task' = [task EXCEPT
                        ![p] = [Return(p, "Converted", "return") EXCEPT !.delTried = TRUE]]
       \/ /\ UNCHANGED fs
          /\ task' = [task EXCEPT
                        ![p] = [Return(p, "Failed", "remove") EXCEPT !.delTried = TRUE]]
    /\ UNCHANGED workerFrame

\* RemoveOriginal with the error of os.remove ignored: the call reports the
\* conversion although the original is still there.
RemoveOriginal_IgnoreError(p) ==
    /\ task[p].pc = "remove"
    /\ \/ /\ Exists(fs, p)
          /\ fs' = [fs EXCEPT ![p] = Absent]
          /\ task' = [task EXCEPT
                        ![p] = [Return(p, "Converted", "return") EXCEPT !.delTried = TRUE]]
       \/ /\ UNCHANGED fs
          /\ task' = [task EXCEPT
                        ![p] = [Return(p, "Converted", "return") EXCEPT !.delTried = TRUE]]
    /\ UNCHANGED workerFrame

\* Lines 104-107: os.remove(image_path), then the savings and the result.
RemoveOriginal(p) ==
    /\ task[p].pc = "remove"
    /\ \/ /\ Exists(fs, p)
          /\ fs' = [fs EXCEPT ![p] = Absent]
          /\ task' = [task EXCEPT
                        ![p] = [Return(p, "Converted", "return") EXCEPT !.delTried = TRUE]]
       \/ /\ UNCHANGED fs
          /\ task' = [task EXCEPT
                        ![p] = [Return(p, "Failed", "remove") EXCEPT !.delTried = TRUE]]
    /\ UNCHANGED workerFrame

(* ----------------------- the loop over the results -------------------- *)

\* Collect with a Failed result ending the loop: the error of one file aborts
\* the batch.
Collect_Abort ==
    /\ mainpc = "map"
    /\ i < total_files
    /\ Returned(image_files[i + 1])
    /\ LET p == image_files[i + 1]
           result == task[p].result
       IN /\ i' = i + 1
          /\ skip_count' = skip_count + (IF result = "Skipped" THEN 1 ELSE 0)
          /\ success_count' = success_count + (IF result = "Converted" THEN 1 ELSE 0)
          /\ error_count' = error_count + (IF result = "Failed" THEN 1 ELSE 0)
          /\ log' = Append(log, <<i + 1, p, result>>)
          /\ mainpc' = IF result = "Failed" THEN "done" ELSE mainpc
    /\ UNCHANGED <<fs, fs0, run, image_files, task, firstRun, max_workers, qs, proc, env>>

\* Collect with the branches of the loop not exclusive: a result that is not a
\* success is counted as skipped, and an error is counted once more.
Collect_DoubleCount ==
    /\ mainpc = "map"
    /\ i < total_files
    /\ Returned(image_files[i + 1])
    /\ LET p == image_files[i + 1]
           result == task[p].result
       IN /\ i' = i + 1
          /\ skip_count' = skip_count + (IF result # "Converted" THEN 1 ELSE 0)
          /\ success_count' = success_count + (IF result = "Converted" THEN 1 ELSE 0)
          /\ error_count' = error_count + (IF result = "Failed" THEN 1 ELSE 0)
          /\ log' = Append(log, <<i + 1, p, result>>)
    /\ UNCHANGED <<fs, fs0, run, mainpc, image_files, task, firstRun, max_workers, qs, proc, env>>

\* Collect taking the results as they complete (as_completed): any returned
\* call that has no line yet.
Collect_AsCompleted ==
    /\ mainpc = "map"
    /\ i < total_files
    /\ \E p \in Listed :
          /\ Returned(p)
          /\ \A m \in 1..Len(log) : log[m][2] # p
          /\ LET result == task[p].result
             IN /\ i' = i + 1
                /\ skip_count' = skip_count + (IF result = "Skipped" THEN 1 ELSE 0)
                /\ success_count' = success_count + (IF result = "Converted" THEN 1 ELSE 0)
                /\ error_count' = error_count + (IF result = "Failed" THEN 1 ELSE 0)
                /\ log' = Append(log, <<i + 1, p, result>>)
    /\ UNCHANGED <<fs, fs0, run, mainpc, image_files, task, firstRun, max_workers, qs, proc, env>>

\* Lines 132-142: executor.map yields the results in the order of image_files.
Collect ==
    /\ mainpc = "map"
    /\ i < total_files
    /\ Returned(image_files[i + 1])
    /\ LET p == image_files[i + 1]
           result == task[p].result
       IN /\ i' = i + 1
          /\ skip_count' = skip_count + (IF result = "Skipped" THEN 1 ELSE 0)
          /\ success_count' = success_count + (IF result = "Converted" THEN 1 ELSE 0)
          /\ error_count' = error_count + (IF result = "Failed" THEN 1 ELSE 0)
          /\ log' = Append(log, <<i + 1, p, result>>)
    /\ UNCHANGED <<fs, fs0, run, mainpc, image_files, task, firstRun, max_workers, qs, proc, env>>

\* Line 144 and lines 154-157: the pool is shut down and the counts are reported.
Finish ==
    /\ mainpc = "map"
    /\ i = total_files
    /\ mainpc' = "done"
    /\ proc' = [proc EXCEPT !.summary = <<success_count, skip_count, error_count>>,
                            !.exit_status = 0]
    /\ UNCHANGED <<fs, fs0, run, image_files, task, i, success_count, skip_count,
                   error_count, log, firstRun, max_workers, qs, env>>

\* The script is run again on the same tree.
Rerun ==
    /\ mainpc = "done"
    /\ run + 1 \in Runs
    /\ run' = run + 1
    /\ mainpc' = "start"
    /\ firstRun' = [w \in WebpTree |->
                      IF run = 1
                      THEN IF \E p \in InputTree : /\ task[p].result = "Converted"
                                                   /\ with_suffix(p, ".webp") = w
                           THEN fs[w] ELSE Absent
                      ELSE firstRun[w]]
    /\ image_files' = <<>>
    /\ task' = [p \in Tree |-> NoTask]
    /\ i' = 0
    /\ success_count' = 0
    /\ skip_count' = 0
    /\ error_count' = 0
    /\ log' = <<>>
    /\ fs0' = fs
    /\ proc' = ProcStart
    /\ UNCHANGED <<fs, max_workers, qs, env>>

Worker(p) ==
    \/ ReadOriginal(p)
    \/ OpenImage(p)
    \/ EncodeLossless(p)
    \/ TryQuality(p)
    \/ EndSearch(p)
    \/ SizeGate(p)
    \/ WriteWebp(p)
    \/ RemoveOriginal(p)

Next ==
    \/ Enumerate
    \/ EnumerateFails
    \/ \E p \in InputTree : Dispatch(p)
    \/ \E p \in InputTree : Worker(p)
    \/ Collect
    \/ Finish

\* One run of the script.
Spec == Init /\ [][Next]_vars

NextRerun ==
    \/ Next
    \/ Rerun

\* The script run on a tree, and then run again on what it left.
SpecRerun == Init /\ [][NextRerun]_vars

(* ------------------ the tree changed by another process --------------- *)

\* Between the enumeration and the end of the loop another process creates a
\* supported file that was not there when the list was made.
Appear(p) ==
    /\ mainpc = "map"
    /\ env.appeared = NoPath
    /\ p \notin Listed
    /\ ~Exists(fs, p)
    /\ fs' = [fs EXCEPT ![p] = Original(p, MaxSize)]
    /\ env' = [env EXCEPT !.appeared = p]
    /\ UNCHANGED <<fs0, run, mainpc, image_files, task, i, success_count, skip_count,
                   error_count, log, firstRun, max_workers, qs, proc>>

\* Another process removes a listed file whose call has not returned yet;
\* stage records where the call was.  A file that Image.open has opened is
\* still decoded from the open handle.
Disappear(p) ==
    /\ mainpc = "map"
    /\ env.vanished = NoPath
    /\ p \in Listed
    /\ task[p].pc # "returned"
    /\ Exists(fs, p)
    /\ fs' = [fs EXCEPT ![p] = Absent]
    /\ env' = [env EXCEPT !.vanished = p, !.stage = task[p].pc]
    /\ UNCHANGED <<fs0, run, mainpc, image_files, task, i, success_count, skip_count,
                   error_count, log, firstRun, max_workers, qs, proc>>

\* A tree of files of the largest size, with no .webp file in it yet.
InitEnv ==
    /\ \E present \in Trees :
          fs = [p \in Tree |-> IF p \in present THEN Original(p, MaxSize) ELSE Absent]
    /\ fs0 = fs
    /\ run = 1
    /\ mainpc = "start"
    /\ image_files = <<>>
    /\ task = [p \in Tree |-> NoTask]
    /\ i = 0
    /\ success_count = 0
    /\ skip_count = 0
    /\ error_count = 0
    /\ log = <<>>
    /\ firstRun = [p \in WebpTree |-> Absent]
    /\ max_workers \in 1..MaxWorkers
    /\ qs = QsOff
    /\ proc = ProcStart
    /\ env = EnvQuiet

NextEnv ==
    \/ Next
    \/ \E p \in InputTree : Appear(p)
    \/ \E p \in InputTree : Disappear(p)

\* One run of the script on a tree that another process changes meanwhile.
SpecEnv == InitEnv /\ [][NextEnv]_vars

(* ------------------- the search of one image, on its own -------------- *)

\* The image the search is run on.
SearchPath == Path("a", ".png")

\* One encoding the search made, and what the loop did with it.
Encoding(quality, lossless, len, diff, undecodable, best_before, called, accepted) ==
    [quality |-> quality, lossless |-> lossless, len |-> len, diff |-> diff,
     undecodable |-> undecodable, best_before |-> best_before, called |-> called,
     accepted |-> accepted]

InitSearch ==
    /\ fs = [p \in Tree |-> Absent]
    /\ fs0 = fs
    /\ run = 1
    /\ mainpc = "start"
    /\ image_files = <<>>
    /\ task = [p \in Tree |-> NoTask]
    /\ i = 0
    /\ success_count = 0
    /\ skip_count = 0
    /\ error_count = 0
    /\ log = <<>>
    /\ firstRun = [p \in WebpTree |-> Absent]
    /\ max_workers = 1
    /\ proc = ProcStart
    /\ env = EnvQuiet
    /\ \E original_size \in 1..MaxSize, mode \in Modes, npix \in PixelCounts :
          qs = [phase |-> "open", original_size |-> original_size, mode |-> mode,
                npix |-> npix, k |-> 0, best |-> NoBest, webp_data |-> NoData,
                trace |-> <<>>, simCalls |-> 0]

\* Lines 62-64, 71-75: branch on the mode, start the search.
SearchOpen ==
    /\ qs.phase = "open"
    /\ qs' = IF HasAlpha(qs.mode)
             THEN [qs EXCEPT !.phase = "lossless"]
             ELSE [qs EXCEPT !.phase = "trial", !.k = 1,
                             !.best = StartSearch(qs.original_size)]
    /\ UNCHANGED batchVars

\* Lines 65-69: the one lossless encoding.
SearchLossless ==
    /\ qs.phase = "lossless"
    /\ \/ \E len \in EncSizes :
             qs' = [qs EXCEPT
                      !.phase = "found",
                      !.webp_data = Webp(SearchPath, len),
                      !.trace = Append(qs.trace,
                                       Encoding(QUALITIES[1], TRUE, len, 0, FALSE,
                                                -1, FALSE, TRUE))]
       \/ qs' = [qs EXCEPT !.phase = "raised"]
    /\ UNCHANGED batchVars

\* Lines 77-87: one pass of the loop, at level QUALITIES[k].
SearchTrial ==
    /\ qs.phase = "trial"
    /\ \/ \E len \in EncSizes, diff \in Diffs(qs.npix), undecodable \in BOOLEAN :
             LET quality == QUALITIES[qs.k]
                 webp_data == Webp(SearchPath, len)
                 best == Trial(qs.best, quality, webp_data, qs.npix, diff, undecodable)
                 called == NeedsSimilarity(qs.best, webp_data)
             IN qs' = [qs EXCEPT
                         !.best = best,
                         !.k = qs.k + 1,
                         !.phase = IF qs.k = Len(QUALITIES) THEN "endsearch" ELSE "trial",
                         !.simCalls = qs.simCalls + (IF called THEN 1 ELSE 0),
                         !.trace = Append(qs.trace,
                                          Encoding(quality, FALSE, len, diff, undecodable,
                                                   qs.best.best_size, called,
                                                   best # qs.best))]
       \/ qs' = [qs EXCEPT !.phase = "raised"]
    /\ UNCHANGED batchVars

\* Lines 89-91: if best_data is None: return None; webp_data = best_data.
SearchEnd ==
    /\ qs.phase = "endsearch"
    /\ qs' = IF qs.best.best_data = NoData
             THEN [qs EXCEPT !.phase = "none"]
             ELSE [qs EXCEPT !.phase = "found", !.webp_data = qs.best.best_data]
    /\ UNCHANGED batchVars

NextSearch ==
    \/ SearchOpen
    \/ SearchLossless
    \/ SearchTrial
    \/ SearchEnd

\* Lines 62-91 run on one image, with every encoding they make recorded.
SpecSearch == InitSearch /\ [][NextSearch]_vars

(* ------------------------------- claims ------------------------------- *)

webp_path(p) == with_suffix(p, ".webp")

\* C1 (as claimed): after a run, every file whose outcome is Converted is gone
\* and its replacement path holds a file strictly smaller than the original
\* size the call recorded.
C1_DestructiveSafety ==
    mainpc = "done" =>
        \A p \in Listed :
            task[p].result = "Converted" =>
                /\ ~Exists(fs, p)
                /\ Exists(fs, webp_path(p))
                /\ fs[webp_path(p)].len < task[p].original_size

\* C2: after a run, every file whose outcome is Skipped or Failed still exists
\* with the contents it had when the run listed it.
C2_NonDestructiveSkipFail ==
    mainpc = "done" =>
        \A p \in Listed :
            task[p].result \in {"Skipped", "Failed"} =>
                /\ Exists(fs, p)
                /\ fs[p] = fs0[p]

\* A finished run with a file Skipped and another Failed after its
\* replacement had been written (the removal failed).
C2_Witness ==
    /\ mainpc = "done"
    /\ \E p, q \in Listed :
          /\ task[p].result = "Failed" /\ task[p].wrote /\ task[p].delTried
          /\ task[q].result = "Skipped"
          /\ fs[p] = fs0[p] /\ fs[q] = fs0[q]

\* C3: the removal of the original is attempted only by a call whose write of
\* the replacement has completed, and a call that failed while reading,
\* decoding, encoding or writing never attempted it and left the file alone.
C3_DeleteAfterWrite ==
    /\ [](\A p \in InputTree :
            (task[p].result = "Failed" /\ task[p].at \in {"read", "decode", "encode", "write"})
                => (~task[p].delTried /\ fs[p] = fs0[p]))
    /\ [][\A p \in InputTree :
            ((task'[p].delTried /\ ~task[p].delTried) \/ (Exists(fs, p) /\ ~Exists(fs', p)))
                => (task[p].pc = "remove" /\ task[p].wrote /\ Exists(fs, webp_path(p)))]_vars

\* One file was converted (written, then removed) while the write of another
\* failed, which left the other where it was.
C3_Witness ==
    \E p, q \in Listed :
        /\ task[p].result = "Converted" /\ task[p].wrote /\ task[p].delTried /\ ~Exists(fs, p)
        /\ task[q].result = "Failed" /\ task[q].at = "write" /\ Exists(fs, q)

\* C4 (as claimed): two distinct files of the list have distinct replacement
\* paths, so no two calls write the same replacement file.
C4_ReplacementIndependence ==
    \A p, q \in Listed :
        (p # q /\ task[p].wrote /\ task[q].wrote) => webp_path(p) # webp_path(q)

\* C5 (as claimed): once the call on a file has returned, the original and the
\* replacement the call wrote are not both present, the original and its
\* replacement path are not both absent, and the original is gone exactly when
\* the replacement was written.
C5_NoCoexistence ==
    \A p \in Listed :
        Returned(p) =>
            /\ task[p].wrote => ~(Exists(fs, p) /\ Exists(fs, webp_path(p)))
            /\ ~(~Exists(fs, p) /\ ~Exists(fs, webp_path(p)))
            /\ (~Exists(fs, p) <=> task[p].wrote)

\* C5 (amended): once the call on a file has returned, the original and its
\* replacement are never both absent; the original is gone exactly when the
\* outcome is Converted, and then the replacement was written first and is
\* present.  (Both can be present after a Skipped or Failed return.)
C5_NoTornConversion ==
    \A p \in Listed :
        Returned(p) =>
            /\ Exists(fs, p) \/ Exists(fs, webp_path(p))
            /\ ~Exists(fs, p) <=> task[p].result = "Converted"
            /\ ~Exists(fs, p) => (task[p].wrote /\ Exists(fs, webp_path(p)))

\* A returned Converted call next to a call whose removal failed after the
\* write: the first file is replaced, the second stands beside its replacement.
C5_Witness ==
    \E p, q \in Listed :
        /\ task[p].result = "Converted" /\ ~Exists(fs, p) /\ Exists(fs, webp_path(p))
        /\ task[q].result = "Failed" /\ task[q].at = "remove"
        /\ Exists(fs, q) /\ Exists(fs, webp_path(q))

\* C7: a candidate that is not smaller than the original is never written: the
\* call at the size check with such a candidate returns Skipped and changes no
\* file, the calls past the check hold a strictly smaller candidate, and a
\* Converted outcome is for a strictly smaller file.
C7_SizeGateEveryCandidate ==
    /\ [](\A p \in InputTree :
            /\ task[p].pc \in {"write", "remove"}
                  => task[p].webp_data.len < task[p].original_size
            /\ task[p].result = "Converted" => task[p].webp_size < task[p].original_size
            /\ (task[p].result = "Skipped" /\ task[p].at = "gate")
                  => (~task[p].wrote /\ ~task[p].delTried))
    /\ [][\A p \in InputTree :
            (/\ task[p].pc = "gate"
             /\ task[p].webp_data.len >= task[p].original_size
             /\ task'[p] # task[p])
                => (task'[p].result = "Skipped" /\ fs' = fs)]_vars

\* An image with alpha whose lossless encoding is not smaller was Skipped at
\* the size check, and the file is as it was.
C7_Witness ==
    \E p \in Listed :
        /\ task[p].result = "Skipped" /\ task[p].at = "gate" /\ task[p].lossless
        /\ fs[p] = fs0[p] /\ ~Exists(fs, webp_path(p))

\* C10 (as claimed): the second run lists no .webp file, so it lists no file a
\* conversion of the first run produced, and it leaves those files as the
\* first run left them.
C10_IdempotentRerun ==
    run = 2 =>
        /\ \A n \in 1..Len(image_files) : image_files[n].ext # ".webp"
        /\ \A w \in WebpTree :
              Exists(firstRun, w) => (w \notin Listed /\ fs[w] = firstRun[w])

\* C11: a call that fails (while reading, decoding, encoding, writing or
\* removing) yields a Failed outcome; the run still ends with every file of the
\* list processed and tallied, and the failed counter counts the Failed ones.
C11_ErrorsNeverAbort ==
    /\ \A p \in Listed :
          (Returned(p) /\ task[p].at \in {"read", "decode", "encode", "write", "remove"})
              => task[p].result = "Failed"
    /\ mainpc = "done" =>
          /\ \A p \in Listed : Returned(p)
          /\ i = total_files
          /\ Len(log) = total_files
          /\ \A n \in 1..total_files : \E m \in 1..Len(log) : log[m][2] = image_files[n]
          /\ error_count = Cardinality({p \in Listed : task[p].result = "Failed"})
          /\ success_count = Cardinality({p \in Listed : task[p].result = "Converted"})
          /\ skip_count = Cardinality({p \in Listed : task[p].result = "Skipped"})

\* A finished run in which the first file of the list failed and the second was
\* still converted and counted.
C11_Witness ==
    /\ mainpc = "done"
    /\ total_files = 2
    /\ task[image_files[1]].result = "Failed"
    /\ task[image_files[2]].result = "Converted"
    /\ error_count = 1
    /\ success_count = 1

\* The file has its progress line.
Logged(p) == \E m \in 1..Len(log) : log[m][2] = p

\* C12 (as claimed): the outcomes are tallied and logged in the order the calls
\* complete: when a later-completed file has its line, every file that
\* completed before it has its line too.
C12_CompletionOrder ==
    \A p, q \in Listed :
        (Returned(p) /\ Returned(q) /\ task[p].rank < task[q].rank /\ Logged(q))
            => Logged(p)

\* C12 (amended): the outcomes are tallied and logged in the order of the file
\* list: the n-th line is numbered n and is for the n-th file of the list, and
\* the counters have counted exactly the first i files.
C12_InputOrder ==
    /\ Len(log) = i
    /\ \A n \in 1..Len(log) :
          /\ Returned(image_files[n])
          /\ log[n] = <<n, image_files[n], task[image_files[n]].result>>

\* Both files are logged, the first of the list first, although the second
\* of the list completed first.
C12_Witness ==
    /\ total_files = 2
    /\ Len(log) = 2
    /\ task[image_files[2]].rank = 1
    /\ task[image_files[1]].rank = 2
    /\ log[1][2] = image_files[1]

\* C13: when the replacement was written and the removal of the original then
\* fails, the outcome is Failed and not Converted, the original is present
\* with the content it had, and the replacement is on disk next to it.
C13_DeleteFailure ==
    \A p \in Listed :
        (Returned(p) /\ task[p].delTried /\ (Exists(fs, p) \/ task[p].at = "remove"))
            => /\ task[p].result = "Failed"
               /\ task[p].at = "remove"
               /\ task[p].wrote
               /\ Exists(fs, p)
               /\ fs[p] = fs0[p]
               /\ Exists(fs, webp_path(p))

\* A removal failed after the write: the file is Failed, and both the
\* original and the replacement written from it are there.
C13_Witness ==
    \E p \in Listed :
        /\ task[p].result = "Failed"
        /\ task[p].at = "remove"
        /\ task[p].wrote
        /\ fs[p] = fs0[p]
        /\ fs[webp_path(p)].src = p

\* The lines of the log that report p.
LinesOf(p) == {m \in 1..Len(log) : log[m][2] = p}

\* The lines of the log that report the outcome result.
LinesWith(result) == {m \in 1..Len(log) : log[m][3] = result}

\* C14: every listed file is handed to convert_to_webp exactly once, its
\* outcome is counted in exactly one counter exactly once, the sum of the
\* counters is the number of progress lines at every point of the loop and is
\* total_files at the end.
C14_ExactlyOnce ==
    /\ success_count + skip_count + error_count = Len(log)
    /\ success_count = Cardinality(LinesWith("Converted"))
    /\ skip_count = Cardinality(LinesWith("Skipped"))
    /\ error_count = Cardinality(LinesWith("Failed"))
    /\ \A p \in Tree :
          /\ task[p].calls <= 1
          /\ Cardinality(LinesOf(p)) <= 1
          /\ p \notin Listed => (task[p].calls = 0 /\ LinesOf(p) = {})
          /\ LinesOf(p) # {} => (Returned(p) /\ task[p].calls = 1)
    /\ mainpc = "done" =>
          /\ success_count + skip_count + error_count = total_files
          /\ Cardinality(Listed) = total_files
          /\ \A p \in Listed : task[p].calls = 1 /\ Cardinality(LinesOf(p)) = 1

\* A finished run of two files, one Failed and one Skipped, each counted once.
C14_Witness ==
    /\ mainpc = "done"
    /\ total_files = 2
    /\ error_count = 1
    /\ skip_count = 1
    /\ success_count = 0
    /\ \A p \in Listed : task[p].calls = 1

\* C18: in the search without alpha the best size starts at the original size
\* and never increases, an accepted candidate is strictly smaller than the
\* original, so the size check never rejects the candidate of the search: a
\* Skipped outcome of the size check comes from the alpha path only.
C18_SearchPassesGate ==
    /\ [](\A p \in Tree :
            /\ (task[p].pc = "trial" /\ task[p].k = 1)
                  => task[p].best = StartSearch(task[p].original_size)
            /\ task[p].pc \in {"trial", "endsearch"}
                  => /\ task[p].best.best_size <= task[p].original_size
                     /\ task[p].best.best_data # NoData
                           => /\ task[p].best.best_data.len = task[p].best.best_size
                              /\ task[p].best.best_size < task[p].original_size
            /\ (task[p].pc = "gate" /\ ~task[p].lossless)
                  => ~NotBeneficial(task[p].webp_data.len, task[p].original_size)
            /\ (task[p].result = "Skipped" /\ task[p].at = "gate") => task[p].lossless)
    /\ [][\A p \in Tree :
            (task[p].pc = "trial" /\ task'[p].pc \in {"trial", "endsearch"})
                => task'[p].best.best_size <= task[p].best.best_size]_vars

\* The search without alpha has yielded a candidate one byte smaller than the
\* original and the call is at the size check.
C18_Witness ==
    \E p \in Listed :
        /\ task[p].pc = "gate"
        /\ ~task[p].lossless
        /\ task[p].original_size = MaxSize
        /\ task[p].webp_data.len = MaxSize - 1

\* C17: when the enumeration of the directory raises, no call of
\* convert_to_webp is ever dispatched, no file is written or removed, no
\* summary is reported and the process exits with a status that is not 0.
C17_EnumerationErrorFatal ==
    proc.enumRaised =>
        /\ mainpc = "fatal"
        /\ \A p \in Tree : task[p].calls = 0 /\ task[p].pc = "none"
        /\ i = 0
        /\ log = <<>>
        /\ fs = fs0
        /\ proc.summary = <<>>
        /\ proc.exit_status # 0
        /\ proc.exit_status # -1

\* The enumeration of a tree with two images raised and the process exited
\* with status 1.
C17_Witness ==
    /\ proc.enumRaised
    /\ proc.exit_status = 1
    /\ Cardinality({p \in InputTree : Exists(fs, p)}) = 2

(* --------------------- claims about the search ------------------------ *)

\* The encodings of the trace that are smaller than the original and whose
\* similarity is at least 0.95 (20 * diff <= max_diff, and decodable).
Passing ==
    {j \in 1..Len(qs.trace) :
        /\ qs.trace[j].len < qs.original_size
        /\ ~qs.trace[j].undecodable
        /\ 20 * qs.trace[j].diff <= qs.npix * 3 * 255 * 255}

MinPassing == CHOOSE j \in Passing :
    \A k \in Passing :
        \/ qs.trace[j].len < qs.trace[k].len
        \/ (qs.trace[j].len = qs.trace[k].len /\ j <= k)

\* C6: for an image without alpha, a search that ends has encoded the levels
\* 90, 85, 80 in that order, yields nothing exactly when no level is both
\* smaller than the original and similar enough, and otherwise yields the
\* smallest such encoding, the earliest level on a tie.
C6_BestOfSequence ==
    (qs.phase \in {"found", "none"} /\ qs.mode \notin {"RGBA", "LA"}) =>
        /\ Len(qs.trace) = 3
        /\ <<qs.trace[1].quality, qs.trace[2].quality, qs.trace[3].quality>> = <<90, 85, 80>>
        /\ qs.phase = "none" <=> Passing = {}
        /\ Passing # {} =>
              /\ qs.webp_data.len = qs.trace[MinPassing].len
              /\ qs.best.best_quality = qs.trace[MinPassing].quality

\* Levels 90 and 85 both pass, 85 is smaller, and the search yields level 85.
C6_Witness ==
    /\ qs.phase = "found"
    /\ qs.mode \notin {"RGBA", "LA"}
    /\ {1, 2} \subseteq Passing
    /\ qs.trace[2].len < qs.trace[1].len
    /\ qs.best.best_quality = 85
    /\ qs.webp_data.len = qs.trace[2].len

\* C8: the search of an image with alpha makes no encoding but one lossless
\* one, which is its result, and never computes a similarity.
C8_AlphaBypass ==
    qs.phase # "off" /\ qs.mode \in {"RGBA", "LA"} =>
        /\ qs.simCalls = 0
        /\ Len(qs.trace) <= 1
        /\ \A j \in 1..Len(qs.trace) : qs.trace[j].lossless /\ ~qs.trace[j].called
        /\ qs.phase \in {"open", "lossless", "found", "raised"}
        /\ qs.phase = "found" =>
              (Len(qs.trace) = 1 /\ qs.webp_data.len = qs.trace[1].len)

\* The search of an 'LA' image has ended with its one lossless encoding.
C8_Witness ==
    /\ qs.phase = "found"
    /\ qs.mode = "LA"
    /\ Len(qs.trace) = 1
    /\ qs.trace[1].lossless

\* C9: an encoding smaller than the best size so far is accepted as the new
\* best exactly when its similarity is at least 0.95: at a score of exactly
\* 0.95 it is accepted, below it is rejected; an encoding that is not smaller
\* is never accepted.
C9_ThresholdInclusive ==
    qs.phase # "off" =>
        \A j \in 1..Len(qs.trace) :
            ~qs.trace[j].lossless =>
                /\ qs.trace[j].called <=> qs.trace[j].len < qs.trace[j].best_before
                /\ qs.trace[j].accepted <=>
                      /\ qs.trace[j].called
                      /\ ~qs.trace[j].undecodable
                      /\ 20 * qs.trace[j].diff <= qs.npix * 3 * 255 * 255

\* One level scored exactly 0.95 and was accepted; another, smaller still,
\* scored just below and was rejected.
C9_Witness ==
    \E j, k \in 1..Len(qs.trace) :
        /\ qs.trace[j].called /\ ~qs.trace[j].undecodable
        /\ 20 * qs.trace[j].diff = qs.npix * 3 * 255 * 255
        /\ qs.trace[j].accepted
        /\ qs.trace[k].called /\ ~qs.trace[k].undecodable
        /\ 20 * qs.trace[k].diff > qs.npix * 3 * 255 * 255
        /\ 20 * (qs.trace[k].diff - 1) <= qs.npix * 3 * 255 * 255
        /\ ~qs.trace[k].accepted

\* The similarity was computed for encoding j of the trace and raised.
SimilarityRaised(j) == qs.trace[j].called /\ qs.trace[j].undecodable

\* C16: an encoding whose similarity computation raised scores 0.0 and is not
\* accepted; the pass of the loop that met the error leaves the best so far
\* as it was and goes on to the next level instead of failing the file, and a
\* search that ends has still evaluated every level.
C16_SimilarityErrorRejectsOne ==
    /\ [](qs.phase # "off" =>
            \A j \in 1..Len(qs.trace) :
                SimilarityRaised(j) =>
                    /\ analyze_image_quality(qs.npix, qs.trace[j].diff,
                                             qs.trace[j].undecodable) = <<0, 1>>
                    /\ ~qs.trace[j].accepted
                    /\ qs.phase \in {"found", "none"} => Len(qs.trace) = Len(QUALITIES))
    /\ [][(/\ qs.phase = "trial"
            /\ Len(qs'.trace) = Len(qs.trace) + 1
            /\ qs'.trace[Len(qs'.trace)].called
            /\ qs'.trace[Len(qs'.trace)].undecodable)
              => /\ qs'.best = qs.best
                 /\ qs'.k = qs.k + 1
                 /\ qs'.phase = IF qs.k = Len(QUALITIES) THEN "endsearch" ELSE "trial"]_vars

\* The similarity of level 90 raised, and the search then accepted level 85
\* and yielded it.
C16_Witness ==
    /\ qs.phase = "found"
    /\ Len(qs.trace) = 3
    /\ SimilarityRaised(1)
    /\ ~qs.trace[1].accepted
    /\ qs.trace[2].accepted
    /\ qs.best.best_quality = 85

(* ------------- lines 57-107 on one file, for the savings -------------- *)

\* The byte lengths of the originals and of the encodings: small ones and the
\* two largest.
SavingsSizes == (0..MaxSize) \cup {LargeSize - 1, LargeSize}

NoSavings == <<0, 0>>

InitSavings ==
    /\ fs = [p \in Tree |-> Absent]
    /\ fs0 = fs
    /\ run = 1
    /\ mainpc = "start"
    /\ image_files = <<>>
    /\ task = [p \in Tree |-> NoTask]
    /\ i = 0
    /\ success_count = 0
    /\ skip_count = 0
    /\ error_count = 0
    /\ log = <<>>
    /\ firstRun = [p \in WebpTree |-> Absent]
    /\ max_workers = 1
    /\ proc = ProcStart
    /\ env = EnvQuiet
    /\ \E original_size \in SavingsSizes :
          qs = [phase |-> "read", original_size |-> original_size, lossless |-> FALSE,
                webp_size |-> -1, divisor |-> -1, savings |-> NoSavings, reported |-> -1]

\* Lines 57-64: the file is read and opened; an empty file is no image.
SavingsOpen ==
    /\ qs.phase = "read"
    /\ qs' = IF qs.original_size = 0
             THEN [qs EXCEPT !.phase = "raised"]
             ELSE [qs EXCEPT !.phase = "encode"]
    /\ UNCHANGED batchVars

\* Lines 64-91: the lossless encoding, or the search, whose result is smaller
\* than the original when it has one.
SavingsEncode ==
    /\ qs.phase = "encode"
    /\ \/ \E webp_size \in SavingsSizes \ {0} :
             qs' = [qs EXCEPT !.phase = "gate", !.lossless = TRUE,
                              !.webp_size = webp_size]
       \/ \E webp_size \in SavingsSizes \ {0} :
             /\ NeedsSimilarity(StartSearch(qs.original_size), [len |-> webp_size])
             /\ qs' = [qs EXCEPT !.phase = "gate", !.webp_size = webp_size]
       \/ qs' = [qs EXCEPT !.phase = "skipped"]
       \/ qs' = [qs EXCEPT !.phase = "raised"]
    /\ UNCHANGED batchVars

\* Lines 94-96.
SavingsGate ==
    /\ qs.phase = "gate"
    /\ qs' = IF NotBeneficial(qs.webp_size, qs.original_size)
             THEN [qs EXCEPT !.phase = "skipped"]
             ELSE [qs EXCEPT !.phase = "write"]
    /\ UNCHANGED batchVars

\* Lines 99-104: the write and the removal, either of which can raise.
SavingsWriteRemove ==
    /\ qs.phase = "write"
    /\ \/ qs' = [qs EXCEPT !.phase = "savings"]
       \/ qs' = [qs EXCEPT !.phase = "raised"]
    /\ UNCHANGED batchVars

\* Line 106: the division by original_size.
SavingsCompute ==
    /\ qs.phase = "savings"
    /\ qs' = [qs EXCEPT !.phase = "format", !.divisor = qs.original_size,
                        !.savings = Savings(qs.original_size, qs.webp_size)]
    /\ UNCHANGED batchVars

\* Line 107: the message with the percentage, and the return of True.
SavingsReport ==
    /\ qs.phase = "format"
    /\ qs' = [qs EXCEPT !.phase = "converted", !.reported = Format1f(qs.savings)]
    /\ UNCHANGED batchVars

NextSavings ==
    \/ SavingsOpen
    \/ SavingsEncode
    \/ SavingsGate
    \/ SavingsWriteRemove
    \/ SavingsCompute
    \/ SavingsReport

\* Lines 57-107 run on one file, for the sizes of SavingsSizes.
SpecSavings == InitSavings /\ [][NextSavings]_vars

(* ------------------------ claims about the savings -------------------- *)

\* The division is reached with a positive divisor only, and a Converted file
\* has saved at least one byte.
SavingsDefined ==
    /\ qs.phase \in {"format", "converted"} => qs.divisor > 0
    /\ qs.original_size = 0 => qs.phase \in {"read", "raised"}
    /\ qs.phase = "converted" => qs.original_size - qs.webp_size >= 1

\* C19 (as claimed): the division by the original size is reached only when
\* the original size is greater than 0, and for a Converted outcome the bytes
\* saved are at least 1 and the percentage in the message is greater than 0
\* and at most 100.
C19_ReportedPositive ==
    /\ SavingsDefined
    /\ qs.phase = "converted" => (qs.reported > 0 /\ qs.reported <= 1000)

\* C19 (amended): the division by the original size is reached only when the
\* original size is greater than 0, and for a Converted outcome the bytes
\* saved are at least 1, the computed percentage is greater than 0 and at
\* most 100, and the percentage in the message, rounded to one decimal, is
\* from 0.0 to 100.0: it is 0.0 when the saving is under 0.05 percent.
C19_SavingsWellDefined ==
    /\ SavingsDefined
    /\ qs.phase = "converted" =>
          /\ qs.savings[1] > 0
          /\ qs.savings[1] <= 100 * qs.savings[2]
          /\ qs.savings[2] = qs.original_size
          /\ qs.reported >= 0
          /\ qs.reported <= 1000
          /\ 2000 * (qs.original_size - qs.webp_size) < qs.original_size
                => qs.reported = 0

\* A file of LargeSize bytes was converted to one a byte smaller, and the
\* message says 0.0 percent.
C19_Witness ==
    /\ qs.phase = "converted"
    /\ qs.original_size = LargeSize
    /\ qs.webp_size = LargeSize - 1
    /\ qs.savings[1] > 0
    /\ qs.reported = 0

(* ------------- claims about a tree that changes during the run -------- *)

\* The supported files that were in the tree when the list was made.
Enumerated == {p \in InputTree : Exists(fs0, p)}

\* The list is made before the first call and is what the run processes.
FixedList ==
    /\ mainpc \in {"map", "done"} => Listed = Enumerated
    /\ \A p \in Tree : p \notin Listed => (task[p].calls = 0 /\ task[p].pc = "none")
    /\ \A p \in Tree : task[p].calls > 0 => mainpc \in {"map", "done"}
    /\ mainpc = "done" => \A p \in Listed : task[p].calls = 1 /\ Returned(p)

\* C15 (as claimed): the list is fixed before the first call and is what the
\* run processes, a file that appears during the run is never processed, and
\* a listed file that disappears during the run before its call has returned
\* is still dispatched and its outcome is Failed.
C15_VanishedFails ==
    /\ FixedList
    /\ \A p \in Listed :
          (env.vanished = p /\ Returned(p)) => task[p].result = "Failed"

\* C15 (amended): the list is fixed before the first call and is what the
\* run processes, a file that appears during the run is never processed, and
\* a listed file that disappears is still dispatched; its outcome is Failed
\* when it disappeared before its call had opened it, and is Failed or
\* Skipped, never Converted, when it disappeared later in its call.
C15_FixedFileList ==
    /\ [](/\ FixedList
          /\ env.appeared # NoPath =>
                (env.appeared \notin Listed /\ task[env.appeared].calls = 0)
          /\ \A p \in Listed :
                (env.vanished = p /\ Returned(p)) =>
                    /\ task[p].calls = 1
                    /\ task[p].result # "Converted"
                    /\ env.stage \in {"queued", "read", "open"}
                          => task[p].result = "Failed")
    /\ [][mainpc = "map" => image_files' = image_files]_vars

\* A run has ended in which one file appeared and was never handed to a
\* worker, and a listed file disappeared before it was dispatched and is Failed.
C15_Witness ==
    /\ mainpc = "done"
    /\ env.appeared # NoPath
    /\ Exists(fs, env.appeared)
    /\ task[env.appeared].calls = 0
    /\ env.vanished # NoPath
    /\ env.stage = "queued"
    /\ task[env.vanished].calls = 1
    /\ task[env.vanished].result = "Failed"

====
